---- MODULE Spec2Model ----
(***************************************************************************)
(* Background ingestion pipeline of the AI image gallery.                  *)
(*                                                                         *)
(* The model follows the ledger (table "images"), the artifact store       *)
(* (bucket "images"), the background upload route with its two background  *)
(* functions, the status hook's reconciliation pass and clear operation,   *)
(* and the re-analysis and analyze-image routes.                           *)
(* A step ends at an await that touches the ledger or the store; what a    *)
(* function computes locally in between belongs to the step.               *)
(*                                                                         *)
(* Collaborators: a ledger update of an existing row always applies (the   *)
(* executor and the hook never look at its result); a ledger insert, every *)
(* storage call and the analysis call may fail.                            *)
(*                                                                         *)
(* Every request and every client call is made with the session of one     *)
(* user; the ledger holds a job of another user from the start and applies *)
(* the row level security policies of supabase-setup.sql to each statement.*)
(*                                                                         *)
(* The list of a mounted component (activeUploads) is fed by the change    *)
(* notifications of the user's rows, which reach the handler together with *)
(* the write, by the passes of fetchActiveUploads and by the grace timers. *)
(* Each render of the list runs the poll effect and the completion effect. *)
(*                                                                         *)
(* analyzeImage and the two server actions of app/actions/upload.ts are    *)
(* followed on their own: the pipeline does not call the server actions,   *)
(* and all it takes from analyzeImage is success or failure.               *)
(***************************************************************************)
EXTENDS Integers, Sequences, FiniteSets, TLC

(***************************************************************************)
(* Bounds                                                                  *)
(***************************************************************************)
\* longest batch a request carries
MaxFiles == 2
\* rows the ledger accepts; a further insert returns dbError
MaxJobs == 1

\* rows of another user that the ledger holds from the start
MaxOthers == 1

\* grace timers of one job that run side by side
MaxTimers == 2

\* ids of the rows the user's requests insert, in the order of their insertion
Ids == 1..MaxJobs

\* ids of the rows of the other user
OtherIds == (MaxJobs + 1)..(MaxJobs + MaxOthers)

AllIds == Ids \cup OtherIds

\* user.id of the session behind every request and every client call
User == "A"

\* user_id of the rows in OtherIds
Other == "B"

(***************************************************************************)
(* Values                                                                  *)
(***************************************************************************)
ActiveStatuses == {"uploading", "processing", "pending", "ai_processing"}

TerminalStatuses == {"completed", "failed"}

\* analyzed_at stands for the columns an analysis result is written to:
\* tags, description, dominant_colors, analyzed_at
NoRow == [user_id |-> "none", processing_status |-> "none",
          upload_progress |-> 0, ai_analysis_error |-> "null",
          thumbnail_url |-> "null", analyzed_at |-> "null"]

\* a job of the other user: both artifacts stored, status pending, created
\* more than five minutes ago
OtherRow == [user_id |-> Other, processing_status |-> "pending",
             upload_progress |-> 90, ai_analysis_error |-> "null",
             thumbnail_url |-> "set", analyzed_at |-> "null"]

\* 10MB limit of the background route
maxSize == 10 * 1024 * 1024

\* a mime type, split at "/": "image/jpeg" is <<"image", "jpeg">>
FileTypes == {<<"image", "jpeg">>, <<"application", "pdf">>}

FileSizes == {maxSize, maxSize + 1}

Files == [type : FileTypes, size : FileSizes]

Batches == UNION {[1..n -> Files] : n \in 0..MaxFiles}

\* file.type.startsWith("image/")
StartsWithImage(t) == Len(t) >= 2 /\ t[1] = "image"

NoResponse == [success |-> "none", error |-> "none", file |-> 0, jobIds |-> {}]

VARIABLES
  images,      \* ledger: id -> row (NoRow while no row has that id)
  blobs,       \* artifact store: set of <<id, "original" | "thumbnail">>
  old,         \* id -> created_at is before now - 5 minutes
  files,       \* the batch of the upload request
  next,        \* upload request: index of the next file of the loop
  uploadJobs,  \* upload request: ids pushed to uploadJobs
  response,    \* upload request: the response returned
  epc,         \* id -> position of processUploadInBackground
  cause,       \* id -> the error the executor is throwing or has caught
  fpc,         \* pass -> position of fetchActiveUploads
  snap,        \* pass -> ids returned by the active-set query (images)
  stuck,       \* pass -> ids of stuckImages
  rapc,        \* position of the re-analysis request
  raId,        \* imageId of the re-analysis request
  aipc,        \* position of the analyze-image request
  aiId,        \* imageId of the analyze-image request
  mounted,     \* the component that holds activeUploads is mounted and
               \* subscribed; React drops the state updates of any other
  activeUploads, \* id -> processing_status shown ("none": not in the list)
  timers,      \* id -> number of pending setTimeout removals
  fetched,     \* pass -> the rows of the query as the pass will show them
  pollInterval,         \* the interval of the poll effect is set
  prevHadActiveUploads, \* prevHadActiveUploads.current
  onAllUploadsComplete, \* the effects of the last render called the callback
  service,     \* analyzeImage: what the completion call of the service did
  result,      \* analyzeImage: what the function returned or threw
  call,        \* the server action that is called
  formFiles,   \* server action: its files
  apc,         \* server action: its position
  idx,         \* uploadImage: position in the batch of the file of the loop
  uploadedPaths, \* uploadImage: uploadedPaths
  bucket,      \* objects the server action stored: set of paths
  table,       \* rows the server action inserted: position of the file -> row
  outcome      \* server action: what reaches its caller

vars == <<images, blobs, old, files, next, uploadJobs, response,
          epc, cause, fpc, snap, stuck, rapc, raId, aipc, aiId,
          mounted, activeUploads, timers, fetched,
          pollInterval, prevHadActiveUploads, onAllUploadsComplete,
          service, result, call, formFiles, apc, idx, uploadedPaths,
          bucket, table, outcome>>

\* what the two effects on activeUploads leave behind
effects == <<pollInterval, prevHadActiveUploads, onAllUploadsComplete>>

\* the variables of the component: its list, its timers and its effects
view == <<activeUploads, timers, effects>>

\* the variables of the component that a ledger write leaves alone
hook == <<mounted, fetched>>

\* the variables of the upload request
post == <<files, next, uploadJobs, response>>

\* the variables of the hook's passes
sync == <<fpc, snap, stuck>>

\* the variables of the two analysis routes
routes == <<rapc, raId, aipc, aiId>>

\* the variables of the pipeline: upload route, executors, hook and routes
pipeline == <<images, blobs, old, post, epc, cause, sync, routes, view,
              mounted, fetched>>

\* the variables of a call of analyzeImage
lib == <<service, result>>

\* the variables of a call of a server action
act == <<call, formFiles, apc, idx, uploadedPaths, bucket, table, outcome>>

\* the variables the pipeline leaves alone
calls == <<lib, act>>

\* fetchActiveUploads runs for the poll timer / subscription and as the last
\* call of clearStuckUploads
Passes == {"poll", "clear"}

Rows == {j \in AllIds : images[j].processing_status # "none"}

\* row level security disabled
PolicyOff(j) == TRUE

\* row level security of table images: USING (auth.uid() = user_id)
Policy(j) == images[j].user_id = User

\* .eq("user_id", user.id)
Owned(j) == images[j].user_id = User

IsActive(j) == images[j].processing_status \in ActiveStatuses

IsTerminal(j) == images[j].processing_status \in TerminalStatuses

(***************************************************************************)
(* Ledger writes                                                           *)
(***************************************************************************)
\* .update(f): the columns named in f are overwritten, the others kept
Patch(row, f) ==
  [k \in DOMAIN row |-> IF k \in DOMAIN f THEN f[k] ELSE row[k]]

\* rows an update statement matches: rows that do not exist or that the
\* policy hides are not matched
Matched(ids) == {j \in ids : j \in Rows /\ Policy(j)}

\* the table after .update(f) of the rows ids
Written(ids, f) ==
  [j \in AllIds |-> IF j \in Matched(ids)
                    THEN Patch(images[j], f) ELSE images[j]]

\* no list
NoUploads == [j \in AllIds |-> "none"]

Min(a, b) == IF a < b THEN a ELSE b

\* postgres_changes with filter user_id=eq.user.id: the rows of ids whose
\* change the subscribed component is told, img being the table after it
Payloads(ids, img) == {j \in ids : mounted /\ img[j].user_id = User}

\* the handler's setActiveUploads((prev) => ...) for the payloads ids: a
\* listed job is updated, an unlisted one is added when its status is active
OnPayload(prev, ids, img) ==
  [j \in AllIds |->
     IF j \in ids /\ (prev[j] # "none"
                       \/ img[j].processing_status \in ActiveStatuses)
     THEN img[j].processing_status ELSE prev[j]]

\* the handler's setTimeout(..., 5000) for a completed or failed payload; a
\* timer beyond MaxTimers runs out together with the latest one
OnPayloadTimeout(prev, ids, img) ==
  [j \in AllIds |->
     IF j \in ids /\ img[j].processing_status \in TerminalStatuses
     THEN Min(prev[j] + 1, MaxTimers) ELSE prev[j]]

\* the poll effect arming whenever the list is not empty
hasUploads(list) == list # NoUploads

\* activeUploads.some(processing_status is one of the four active ones)
hasActiveUploads(list) == \E j \in AllIds : list[j] \in ActiveStatuses

\* the condition of the completion effect, prev being the ref
AllComplete(prev, list) ==
  prev /\ ~hasActiveUploads(list) /\ list = NoUploads

\* the component renders list and its two effects on activeUploads run,
\* prev being prevHadActiveUploads.current: the poll effect sets the interval
\* or leaves it cleared, the completion effect calls onAllUploadsComplete
\* and stores the ref
Render(prev, list) ==
  /\ pollInterval' = hasActiveUploads(list)
  /\ onAllUploadsComplete' = AllComplete(prev, list)
  /\ prevHadActiveUploads' = hasActiveUploads(list)

\* the handler returns a new list for one of the payloads ids: the job is
\* listed or its status is active
Renders(ids, img) ==
  \E j \in ids : activeUploads[j] # "none"
                    \/ img[j].processing_status \in ActiveStatuses

\* the change img of the rows ids reaches the subscribed component
Realtime(ids, img) ==
  /\ activeUploads' = OnPayload(activeUploads, Payloads(ids, img), img)
  /\ timers' = OnPayloadTimeout(timers, Payloads(ids, img), img)
  /\ IF Renders(Payloads(ids, img), img)
     THEN Render(prevHadActiveUploads,
                 OnPayload(activeUploads, Payloads(ids, img), img))
     ELSE UNCHANGED effects

\* .update(f).in("id", ids) / .eq("id", id), and its change notifications
Update(ids, f) ==
  /\ images' = Written(ids, f)
  /\ Realtime(Matched(ids), Written(ids, f))

(***************************************************************************)
(* Background upload route: POST                                           *)
(***************************************************************************)
\* the row inserted as the server action inserts it: status pending
InsertFieldsPending == [user_id |-> User, processing_status |-> "pending",
                        upload_progress |-> 0, ai_analysis_error |-> "null",
                        thumbnail_url |-> "set", analyzed_at |-> "null"]

InsertFields == [user_id |-> User, processing_status |-> "uploading",
                 upload_progress |-> 0, ai_analysis_error |-> "null",
                 thumbnail_url |-> "set", analyzed_at |-> "null"]

\* the file passes the two checks of the loop
TypeAccepted(f) == StartsWithImage(f.type)

SizeAccepted(f) == ~(f.size > maxSize)

\* the id the ledger gives to the next inserted row
NewId == Cardinality(Rows \cap Ids) + 1

\* files.length === 0
PostNoFiles ==
  /\ response = NoResponse
  /\ next = 1
  /\ Len(files) = 0
  /\ response' = [NoResponse EXCEPT !.success = "false",
                                    !.error = "No files provided"]
  /\ UNCHANGED <<images, blobs, old, files, next, uploadJobs, epc, cause, sync, routes, view, hook, calls>>

\* validation of the next file fails: the request returns 400
PostReject ==
  /\ response = NoResponse
  /\ next <= Len(files)
  /\ LET f == files[next] IN
       /\ ~TypeAccepted(f) \/ ~SizeAccepted(f)
       /\ response' = [NoResponse EXCEPT
                         !.success = "false",
                         !.error = IF ~TypeAccepted(f) THEN "must be an image"
                                   ELSE "size must be less than 10MB",
                         !.file = next]
  /\ files' = << >>
  /\ next' = 0
  /\ uploadJobs' = {}
  /\ UNCHANGED <<images, blobs, old, epc, cause, sync, routes, view, hook, calls>>

\* the insert succeeds: the job is pushed and its executor is started
PostInsert ==
  /\ response = NoResponse
  /\ next <= Len(files)
  /\ TypeAccepted(files[next]) /\ SizeAccepted(files[next])
  /\ NewId \in Ids
  /\ images' = [images EXCEPT ![NewId] = InsertFields]
  /\ Realtime({NewId}, [images EXCEPT ![NewId] = InsertFields])
  /\ uploadJobs' = uploadJobs \cup {[imageId |-> NewId, file |-> next]}
  /\ epc' = [epc EXCEPT ![NewId] = "start"]
  /\ next' = next + 1
  /\ UNCHANGED <<blobs, old, files, response, cause, sync, routes, hook, calls>>

\* the insert returns dbError: continue with the next file
PostInsertError ==
  /\ response = NoResponse
  /\ next <= Len(files)
  /\ TypeAccepted(files[next]) /\ SizeAccepted(files[next])
  /\ next' = next + 1
  /\ UNCHANGED <<images, blobs, old, files, uploadJobs, response, epc, cause, sync, routes, view, hook, calls>>

\* end of the loop: success response with the ids of uploadJobs
PostReturn ==
  /\ response = NoResponse
  /\ Len(files) > 0
  /\ next > Len(files)
  /\ response' = [NoResponse EXCEPT
                    !.success = "true",
                    !.jobIds = {job.imageId : job \in uploadJobs}]
  /\ files' = << >>
  /\ next' = 0
  /\ uploadJobs' = {}
  /\ UNCHANGED <<images, blobs, old, epc, cause, sync, routes, view, hook, calls>>

(***************************************************************************)
(* processUploadInBackground                                               *)
(***************************************************************************)
ProcessingFields == [processing_status |-> "processing", upload_progress |-> 10]

Progress30Fields == [upload_progress |-> 30]

\* a progress write below the one before it
Progress50FieldsLow == [upload_progress |-> 5]

Progress50Fields == [upload_progress |-> 50]

Progress70Fields == [upload_progress |-> 70]

PendingFields == [processing_status |-> "pending", upload_progress |-> 90]

\* the upload failure recorded without its detail
UploadFailedFieldsNoDetail == [processing_status |-> "failed",
                               upload_progress |-> 0]

UploadFailedFields == [processing_status |-> "failed",
                       ai_analysis_error |-> "Upload failed",
                       upload_progress |-> 0]

\* paths handed to the final cleanup remove()
CleanupPaths(j) == {<<j, "original">>, <<j, "thumbnail">>}

\* no removal of the original after a failed thumbnail upload
ThumbnailFailurePathsNone(j) == {}

\* paths handed to remove() when the thumbnail upload failed
ThumbnailFailurePaths(j) == {<<j, "original">>}

ExecStart(j) ==
  /\ epc[j] = "start"
  /\ Update({j}, ProcessingFields)
  /\ epc' = [epc EXCEPT ![j] = "buffer"]
  /\ UNCHANGED <<blobs, old, post, cause, sync, routes, hook, calls>>

\* fileToBuffer, then progress 30; a throw goes to the catch block
ExecBuffer(j) ==
  /\ epc[j] = "buffer"
  /\ \/ /\ Update({j}, Progress30Fields)
        /\ epc' = [epc EXCEPT ![j] = "thumbnail"]
        /\ UNCHANGED cause
     \/ /\ epc' = [epc EXCEPT ![j] = "catch"]
        /\ cause' = [cause EXCEPT ![j] = "transform"]
        /\ UNCHANGED <<images, view>>
  /\ UNCHANGED <<blobs, old, post, sync, routes, hook, calls>>

\* generateThumbnail, then progress 50
ExecThumbnail(j) ==
  /\ epc[j] = "thumbnail"
  /\ \/ /\ Update({j}, Progress50Fields)
        /\ epc' = [epc EXCEPT ![j] = "putOriginal"]
        /\ UNCHANGED cause
     \/ /\ epc' = [epc EXCEPT ![j] = "catch"]
        /\ cause' = [cause EXCEPT ![j] = "transform"]
        /\ UNCHANGED <<images, view>>
  /\ UNCHANGED <<blobs, old, post, sync, routes, hook, calls>>

\* storage upload of the original
ExecPutOriginal(j) ==
  /\ epc[j] = "putOriginal"
  /\ \/ /\ blobs' = blobs \cup {<<j, "original">>}
        /\ epc' = [epc EXCEPT ![j] = "progress70"]
        /\ UNCHANGED cause
     \/ /\ epc' = [epc EXCEPT ![j] = "catch"]
        /\ cause' = [cause EXCEPT ![j] = "original"]
        /\ UNCHANGED blobs
  /\ UNCHANGED <<images, old, post, sync, routes, view, hook, calls>>

ExecProgress70(j) ==
  /\ epc[j] = "progress70"
  /\ Update({j}, Progress70Fields)
  /\ epc' = [epc EXCEPT ![j] = "putThumbnail"]
  /\ UNCHANGED <<blobs, old, post, cause, sync, routes, hook, calls>>

\* storage upload of the thumbnail
ExecPutThumbnail(j) ==
  /\ epc[j] = "putThumbnail"
  /\ \/ /\ blobs' = blobs \cup {<<j, "thumbnail">>}
        /\ epc' = [epc EXCEPT ![j] = "pending"]
     \/ /\ epc' = [epc EXCEPT ![j] = "removeOriginal"]
        /\ UNCHANGED blobs
  /\ UNCHANGED <<images, old, post, cause, sync, routes, view, hook, calls>>

\* remove([originalFilePath]) after a failed thumbnail upload, then throw
ExecRemoveOriginal(j) ==
  /\ epc[j] = "removeOriginal"
  /\ blobs' = blobs \ ThumbnailFailurePaths(j)
  /\ cause' = [cause EXCEPT ![j] = "thumbnail"]
  /\ epc' = [epc EXCEPT ![j] = "catch"]
  /\ UNCHANGED <<images, old, post, sync, routes, view, hook, calls>>

\* the removal returns an error and leaves the blob; the throw follows
ExecRemoveOriginalError(j) ==
  /\ epc[j] = "removeOriginal"
  /\ cause' = [cause EXCEPT ![j] = "thumbnail"]
  /\ epc' = [epc EXCEPT ![j] = "catch"]
  /\ UNCHANGED <<images, blobs, old, post, sync, routes, view, hook, calls>>

ExecPending(j) ==
  /\ epc[j] = "pending"
  /\ Update({j}, PendingFields)
  /\ epc' = [epc EXCEPT ![j] = "ai"]
  /\ UNCHANGED <<blobs, old, post, cause, sync, routes, hook, calls>>

\* catch block: the failed write
ExecCatch(j) ==
  /\ epc[j] = "catch"
  /\ Update({j}, UploadFailedFields)
  /\ epc' = [epc EXCEPT ![j] = "cleanup"]
  /\ UNCHANGED <<blobs, old, post, cause, sync, routes, hook, calls>>

\* catch block: remove([originalFilePath, thumbnailFilePath]); the function
\* returns from its catch block
ExecCleanup(j) ==
  /\ epc[j] = "cleanup"
  /\ blobs' = blobs \ CleanupPaths(j)
  /\ cause' = [cause EXCEPT ![j] = "none"]
  /\ epc' = [epc EXCEPT ![j] = "aborted"]
  /\ UNCHANGED <<images, old, post, sync, routes, view, hook, calls>>

\* the cleanup fails (and is at most logged): nothing is removed
ExecCleanupError(j) ==
  /\ epc[j] = "cleanup"
  /\ cause' = [cause EXCEPT ![j] = "none"]
  /\ epc' = [epc EXCEPT ![j] = "aborted"]
  /\ UNCHANGED <<images, blobs, old, post, sync, routes, view, hook, calls>>

(***************************************************************************)
(* processAIAnalysisInBackground                                           *)
(***************************************************************************)
AiProcessingFields == [processing_status |-> "ai_processing",
                       upload_progress |-> 95]

CompletedFields == [processing_status |-> "completed", upload_progress |-> 100,
                    ai_analysis_error |-> "null", analyzed_at |-> "set"]

\* the analysis failure handled like an upload failure
AiFailedFieldsReset == [processing_status |-> "failed",
                        ai_analysis_error |-> "AI analysis failed",
                        upload_progress |-> 0]

\* the analysis failure recorded without a status
AiFailedFieldsNoStatus == [ai_analysis_error |-> "AI analysis failed",
                           upload_progress |-> 100]

AiFailedFields == [processing_status |-> "failed",
                   ai_analysis_error |-> "AI analysis failed",
                   upload_progress |-> 100]

\* createSignedUrl(path) can only succeed for a stored blob
CanSign(j) == <<j, "original">> \in blobs

ExecAi(j) ==
  /\ epc[j] = "ai"
  /\ Update({j}, AiProcessingFields)
  /\ epc' = [epc EXCEPT ![j] = "sign"]
  /\ UNCHANGED <<blobs, old, post, cause, sync, routes, hook, calls>>

\* createSignedUrl: without a signed url the function throws into its catch
ExecSign(j) ==
  /\ epc[j] = "sign"
  /\ \/ /\ CanSign(j)
        /\ epc' = [epc EXCEPT ![j] = "analyze"]
        /\ UNCHANGED cause
     \/ /\ epc' = [epc EXCEPT ![j] = "aiCatch"]
        /\ cause' = [cause EXCEPT ![j] = "signed url"]
  /\ UNCHANGED <<images, blobs, old, post, sync, routes, view, hook, calls>>

\* analyzeImage returned success: the completed write
ExecAnalyzeSuccess(j) ==
  /\ epc[j] = "analyze"
  /\ Update({j}, CompletedFields)
  /\ epc' = [epc EXCEPT ![j] = "done"]
  /\ UNCHANGED <<blobs, old, post, cause, sync, routes, hook, calls>>

\* analyzeImage returned success = false: throw into the catch
ExecAnalyzeFailure(j) ==
  /\ epc[j] = "analyze"
  /\ epc' = [epc EXCEPT ![j] = "aiCatch"]
  /\ cause' = [cause EXCEPT ![j] = "analysis"]
  /\ UNCHANGED <<images, blobs, old, post, sync, routes, view, hook, calls>>

\* the analysis failure cleaned up like an upload failure
AiCatchPathsCleanup(j) == CleanupPaths(j)

\* paths the catch block of processAIAnalysisInBackground removes: it calls
\* no remove()
AiCatchPaths(j) == {}

\* catch block of processAIAnalysisInBackground
ExecAiCatch(j) ==
  /\ epc[j] = "aiCatch"
  /\ Update({j}, AiFailedFields)
  /\ blobs' = blobs \ AiCatchPaths(j)
  /\ epc' = [epc EXCEPT ![j] = "done"]
  /\ cause' = [cause EXCEPT ![j] = "none"]
  /\ UNCHANGED <<old, post, sync, routes, hook, calls>>

(***************************************************************************)
(* Time                                                                    *)
(***************************************************************************)
\* created_at of row j falls behind now - 5 minutes; rows were created in
\* the order of their ids
Age(j) ==
  /\ j \in Rows
  /\ ~old[j]
  /\ \A k \in Rows : k < j => old[k]
  /\ old' = [old EXCEPT ![j] = TRUE]
  /\ UNCHANGED <<images, blobs, post, epc, cause, sync, routes, view, hook, calls>>

(***************************************************************************)
(* useUploadStatus: fetchActiveUploads and clearStuckUploads               *)
(***************************************************************************)
\* the timeout write without the progress column
TimeoutFieldsKeepProgress ==
  [processing_status |-> "failed",
   ai_analysis_error |-> "Upload timed out after 5 minutes"]

TimeoutFields == [processing_status |-> "failed",
                  ai_analysis_error |-> "Upload timed out after 5 minutes",
                  upload_progress |-> 0]

CancelFields == [processing_status |-> "failed",
                 ai_analysis_error |-> "Upload cancelled by user",
                 upload_progress |-> 0]

\* .in("processing_status", [...]) of the active-set query
ActiveSet == {j \in Rows : Policy(j) /\ Owned(j) /\ IsActive(j)}

\* the comparison with fiveMinutesAgo reversed
StuckImagesYoung(ids) == {j \in ids : ~old[j]}

\* images.filter(createdAt < fiveMinutesAgo)
StuckImages(ids) == {j \in ids : old[j]}

\* rows matched by the update of the timeout pass: .in("id", stuckImages ids)
TimeoutTargets(p) == stuck[p]

\* the update of clearStuckUploads with the age filter of the timeout pass
CancelTargetsOld == {j \in Rows : Owned(j) /\ IsActive(j) /\ old[j]}

\* rows matched by the update of clearStuckUploads: the status filter is
\* part of the update itself
CancelTargets == {j \in Rows : Owned(j) /\ IsActive(j)}

\* the pass is about to send its query: the poll timer, the subscription's
\* mount or a refresh may call it at any time; clearStuckUploads calls it
\* after its update
Called(p) == IF p = "poll" THEN fpc[p] = "idle" ELSE fpc[p] = "called"

\* the rows of the query as setActiveUploads(imagesWithUrls) will list them
Fetched == IF mounted
           THEN [j \in AllIds |-> IF j \in ActiveSet
                                  THEN images[j].processing_status ELSE "none"]
           ELSE NoUploads

\* where the pass goes on after its ledger calls: to setActiveUploads, which
\* only a mounted component performs
AfterLedger == IF mounted THEN "set" ELSE "idle"

\* the active-set query is answered; with no row returned nothing is stuck,
\* the pass performs no further call and sets the empty list
FetchQuery(p) ==
  /\ Called(p)
  /\ IF ActiveSet # {}
     THEN /\ snap' = [snap EXCEPT ![p] = ActiveSet]
          /\ fetched' = [fetched EXCEPT ![p] = Fetched]
          /\ fpc' = [fpc EXCEPT ![p] = "filter"]
          /\ UNCHANGED <<activeUploads, effects>>
     ELSE /\ fpc' = [fpc EXCEPT ![p] = "idle"]
          /\ activeUploads' = NoUploads
          /\ Render(prevHadActiveUploads, NoUploads)
          /\ UNCHANGED <<snap, fetched>>
  /\ UNCHANGED <<images, blobs, old, post, epc, cause, stuck, routes,
                 mounted, timers, calls>>

\* the active-set query returns an error: images is null, the pass returns
FetchQueryError(p) ==
  /\ Called(p)
  /\ fpc' = [fpc EXCEPT ![p] = "idle"]
  /\ UNCHANGED <<images, blobs, old, post, epc, cause, snap, stuck, routes,
                 view, hook, calls>>

\* the client filters the rows it got and sends the update when some are stuck
FetchFilter(p) ==
  /\ fpc[p] = "filter"
  /\ IF StuckImages(snap[p]) # {}
     THEN /\ stuck' = [stuck EXCEPT ![p] = StuckImages(snap[p])]
          /\ fpc' = [fpc EXCEPT ![p] = "update"]
          /\ snap' = [snap EXCEPT ![p] = {}]
     ELSE /\ fpc' = [fpc EXCEPT ![p] = AfterLedger]
          /\ snap' = [snap EXCEPT ![p] = {}]
          /\ UNCHANGED stuck
  /\ UNCHANGED <<images, blobs, old, post, epc, cause, routes, view, hook, calls>>

\* the update of the timeout pass is applied
FetchUpdate(p) ==
  /\ fpc[p] = "update"
  /\ Update(TimeoutTargets(p), TimeoutFields)
  /\ fpc' = [fpc EXCEPT ![p] = AfterLedger]
  /\ stuck' = [stuck EXCEPT ![p] = {}]
  /\ UNCHANGED snap
  /\ UNCHANGED <<blobs, old, post, epc, cause, routes, hook, calls>>

\* the signed urls are fetched and setActiveUploads(imagesWithUrls) replaces
\* the list by the rows of the query
FetchSet(p) ==
  /\ fpc[p] = "set"
  /\ activeUploads' = fetched[p]
  /\ Render(prevHadActiveUploads, fetched[p])
  /\ fetched' = [fetched EXCEPT ![p] = NoUploads]
  /\ fpc' = [fpc EXCEPT ![p] = "idle"]
  /\ UNCHANGED <<images, blobs, old, post, epc, cause, snap, stuck, routes,
                 mounted, timers, calls>>

\* clearStuckUploads: its update is applied, setActiveUploads([]) empties the
\* list, then it calls fetchActiveUploads; the component renders the payloads
\* of the update before or after it renders the empty list
ClearStuckUploads ==
  /\ fpc["clear"] = "idle"
  /\ images' = Written(CancelTargets, CancelFields)
  /\ timers' = OnPayloadTimeout(timers,
                  Payloads(Matched(CancelTargets),
                           Written(CancelTargets, CancelFields)),
                  Written(CancelTargets, CancelFields))
  /\ activeUploads' = NoUploads
  /\ \E first \in {"payload", "set"} :
       LET ids == Payloads(Matched(CancelTargets),
                           Written(CancelTargets, CancelFields))
           shown == OnPayload(activeUploads, ids,
                              Written(CancelTargets, CancelFields))
       IN Render(IF first = "payload"
                    /\ Renders(ids, Written(CancelTargets, CancelFields))
                 THEN hasActiveUploads(shown)
                 ELSE prevHadActiveUploads,
                 NoUploads)
  /\ fpc' = [fpc EXCEPT !["clear"] = "called"]
  /\ UNCHANGED <<blobs, old, post, epc, cause, snap, stuck, routes, hook, calls>>

\* a setTimeout callback of the handler: the job is filtered out of the list
GraceTimer(j) ==
  /\ timers[j] > 0
  /\ timers' = [timers EXCEPT ![j] = timers[j] - 1]
  /\ activeUploads' = [activeUploads EXCEPT ![j] = "none"]
  /\ Render(prevHadActiveUploads, [activeUploads EXCEPT ![j] = "none"])
  /\ UNCHANGED <<images, blobs, old, post, epc, cause, sync, routes, hook, calls>>

(***************************************************************************)
(* Re-analysis route: POST /api/reanalyze-image                            *)
(***************************************************************************)
ReProcessingFields == [processing_status |-> "processing",
                       ai_analysis_error |-> "null"]

\* the success write without ai_analysis_error: null
ReCompletedFieldsKeepError == [processing_status |-> "completed",
                               analyzed_at |-> "set"]

ReCompletedFields == [processing_status |-> "completed",
                      ai_analysis_error |-> "null", analyzed_at |-> "set"]

ReFailedFields == [processing_status |-> "failed",
                   ai_analysis_error |-> "AI re-analysis failed"]

\* the record is selected by id alone, among the rows the policy shows
ReFound(id) == id \in Rows /\ Policy(id)

\* select by id: 404 when no row has the id
ReSelect(id) ==
  /\ rapc = "idle"
  /\ IF ReFound(id)
     THEN rapc' = "sign" /\ raId' = id
     ELSE UNCHANGED <<rapc, raId>>
  /\ UNCHANGED <<images, blobs, old, post, epc, cause, sync, aipc, aiId, view, hook, calls>>

\* the original stored again by the request
ReSignedStoreRewritten == blobs \cup CleanupPaths(raId)

\* the store after createSignedUrl(imageRecord.storage_path): a read
ReSignedStore == blobs

\* createSignedUrl: 500 when it fails
ReSign ==
  /\ rapc = "sign"
  /\ \/ /\ CanSign(raId)
        /\ blobs' = ReSignedStore
        /\ rapc' = "mark"
        /\ UNCHANGED raId
     \/ /\ rapc' = "idle"
        /\ raId' = 0
        /\ UNCHANGED blobs
  /\ UNCHANGED <<images, old, post, epc, cause, sync, aipc, aiId, view, hook, calls>>

\* status to processing, error cleared
ReMark ==
  /\ rapc = "mark"
  /\ Update({raId}, ReProcessingFields)
  /\ rapc' = "analyze"
  /\ UNCHANGED <<blobs, old, post, epc, cause, sync, raId, aipc, aiId, hook, calls>>

\* analyzeImage succeeded: results and completed are written
ReSuccess ==
  /\ rapc = "analyze"
  /\ Update({raId}, ReCompletedFields)
  /\ rapc' = "idle"
  /\ raId' = 0
  /\ UNCHANGED <<blobs, old, post, epc, cause, sync, aipc, aiId, hook, calls>>

\* analyzeImage failed: failed is written
ReFailure ==
  /\ rapc = "analyze"
  /\ Update({raId}, ReFailedFields)
  /\ rapc' = "idle"
  /\ raId' = 0
  /\ UNCHANGED <<blobs, old, post, epc, cause, sync, aipc, aiId, hook, calls>>

(***************************************************************************)
(* Analyze-image route: POST /api/analyze-image                            *)
(***************************************************************************)
AnProcessingFields == [processing_status |-> "processing"]

AnCompletedFields == [processing_status |-> "completed",
                      ai_analysis_error |-> "null", analyzed_at |-> "set"]

AnFailedFields == [processing_status |-> "failed",
                   ai_analysis_error |-> "AI analysis failed"]

\* select by id and user_id: 404 when no row of the user has the id
AnSelect(id) ==
  /\ aipc = "idle"
  /\ IF id \in Rows /\ Policy(id) /\ Owned(id)
     THEN aipc' = "mark" /\ aiId' = id
     ELSE UNCHANGED <<aipc, aiId>>
  /\ UNCHANGED <<images, blobs, old, post, epc, cause, sync, rapc, raId, view, hook, calls>>

AnMark ==
  /\ aipc = "mark"
  /\ Update({aiId}, AnProcessingFields)
  /\ aipc' = "analyze"
  /\ UNCHANGED <<blobs, old, post, epc, cause, sync, rapc, raId, aiId, hook, calls>>

AnSuccess ==
  /\ aipc = "analyze"
  /\ Update({aiId}, AnCompletedFields)
  /\ aipc' = "idle"
  /\ aiId' = 0
  /\ UNCHANGED <<blobs, old, post, epc, cause, sync, rapc, raId, hook, calls>>

AnFailure ==
  /\ aipc = "analyze"
  /\ Update({aiId}, AnFailedFields)
  /\ aipc' = "idle"
  /\ aiId' = 0
  /\ UNCHANGED <<blobs, old, post, epc, cause, sync, rapc, raId, hook, calls>>

(***************************************************************************)
(* analyzeImage (lib/ai-analysis.ts)                                       *)
(***************************************************************************)
\* values of a parsed JSON text; a string is the sequence of its characters
Undefined == [t |-> "undefined"]

Null == [t |-> "null"]

Str(s) == [t |-> "string", chars |-> s]

Num(n) == [t |-> "number", n |-> n]

Arr(a) == [t |-> "array", items |-> a]

Obj(tags, description, dominantColors) ==
  [t |-> "object", tags |-> tags, description |-> description,
   dominantColors |-> dominantColors]

\* values the service puts in the tags member
TagValues ==
  {Undefined, Str(<<"c", "a", "t">>), Arr(<<>>),
   Arr(<<Str(<<"c", "a", "t">>)>>),
   Arr(<<Str(<<"c", "a", "t">>), Num(7)>>),
   Arr(<<Str(<<>>)>>)}

\* values the service puts in the description member
DescriptionValues ==
  {Undefined, Str(<<>>), Str(<<"a", " ", "c", "a", "t">>), Num(0), Num(5)}

\* values the service puts in the dominantColors member
ColorValues ==
  {Undefined, Str(<<"r", "e", "d">>), Arr(<<>>),
   Arr(<<Str(<<"#", "f", "F", "0", "0", "9", "a">>)>>),
   Arr(<<Str(<<"#", "f", "F", "0", "0", "9", "a">>),
         Str(<<"r", "e", "d">>)>>)}

\* the values a JSON text of the service parses to
JsonValues ==
  {Null, Num(5), Arr(<<>>)}
  \cup {Obj(tg, d, c) : tg \in TagValues, d \in DescriptionValues,
                        c \in ColorValues}

\* response.choices[0]?.message?.content: absent, the empty text, a text
\* that is no JSON, or a JSON text, held as the value it parses to
Contents ==
  {[text |-> "absent"], [text |-> "empty"], [text |-> "malformed"]}
  \cup {[text |-> "json", value |-> v] : v \in JsonValues}

\* what openai.chat.completions.create does: it throws an Error, throws a
\* value that is no Error, or resolves to a response
ServiceOutcomes ==
  {[kind |-> "error", message |-> m] :
     m \in {"Connection error.", "429 You exceeded your current quota"}}
  \cup {[kind |-> "thrown"]}
  \cup {[kind |-> "response", content |-> c] : c \in Contents}

\* no call of the service is under way
NoService == [kind |-> "none"]

NoResult == [completion |-> "none"]

\* a function that returns value / that throws error
Return(value) == [completion |-> "return", value |-> value]

Throw(error) == [completion |-> "throw", error |-> error]

\* new Error(message) / a thrown value that is no Error
Error(message) == [isError |-> TRUE, message |-> message]

NotAnError == [isError |-> FALSE]

\* !value
Falsy(v) ==
  \/ v.t \in {"undefined", "null"}
  \/ v.t = "string" /\ v.chars = <<>>
  \/ v.t = "number" /\ v.n = 0

IsArray(v) == v.t = "array"

\* value.member of a parsed value that is not null
Member(v, name) ==
  IF v.t = "object"
  THEN CASE name = "tags" -> v.tags
         [] name = "description" -> v.description
         [] name = "dominantColors" -> v.dominantColors
  ELSE Undefined

\* typeof tag === "string" && tag.length > 0
IsTag(v) == v.t = "string" /\ Len(v.chars) > 0

HexDigits ==
  {"0", "1", "2", "3", "4", "5", "6", "7", "8", "9",
   "a", "b", "c", "d", "e", "f", "A", "B", "C", "D", "E", "F"}

\* typeof color === "string" && /^#[0-9A-Fa-f]{6}$/.test(color)
IsColor(v) ==
  /\ v.t = "string"
  /\ Len(v.chars) = 7
  /\ v.chars[1] = "#"
  /\ \A i \in 2..7 : v.chars[i] \in HexDigits

\* array.slice(0, n)
Slice(a, n) == SubSeq(a, 1, Min(Len(a), n))

Digits == <<"0", "1", "2", "3", "4", "5", "6", "7", "8", "9">>

\* String(value) of a string or of a number below ten
String(v) == IF v.t = "string" THEN v.chars ELSE <<Digits[v.n + 1]>>

\* the most tags, colors and characters of the description that are kept
TagLimit == 10

ColorLimit == 3

DescriptionLimit == 500

\* the try block: what it returns or throws for the outcome svc of the
\* service call
Try(svc) ==
  IF svc.kind = "error" THEN Throw(Error(svc.message))
  ELSE IF svc.kind = "thrown" THEN Throw(NotAnError)
  ELSE IF svc.content.text \in {"absent", "empty"}
  THEN Throw(Error("No response content from OpenAI"))
  ELSE IF svc.content.text = "malformed"
  THEN Throw(Error("Unexpected token in JSON"))
  ELSE LET analysisResult == svc.content.value IN
    IF analysisResult.t = "null"
    THEN Throw(Error("Cannot read properties of null"))
    ELSE IF \/ Falsy(Member(analysisResult, "tags"))
            \/ ~IsArray(Member(analysisResult, "tags"))
            \/ Falsy(Member(analysisResult, "description"))
            \/ Falsy(Member(analysisResult, "dominantColors"))
            \/ ~IsArray(Member(analysisResult, "dominantColors"))
    THEN Throw(Error("Invalid response structure from OpenAI"))
    ELSE Return([tags |-> Slice(SelectSeq(analysisResult.tags.items, IsTag),
                                TagLimit),
                 description |-> Slice(String(analysisResult.description),
                                       DescriptionLimit),
                 dominantColors |->
                   Slice(SelectSeq(analysisResult.dominantColors.items,
                                   IsColor), ColorLimit),
                 success |-> TRUE,
                 error |-> "undefined"])

\* a catch block that throws what it caught
CatchRethrow(error) == Throw(error)

\* the catch block
Catch(error) ==
  Return([tags |-> <<>>,
          description |-> <<>>,
          dominantColors |-> <<>>,
          success |-> FALSE,
          error |-> IF error.isError THEN error.message
                    ELSE "Unknown error"])

analyzeImage(svc) ==
  IF Try(svc).completion = "throw" THEN Catch(Try(svc).error) ELSE Try(svc)

\* analyzeImage is called and the service answers
AnalyzeCall ==
  /\ service = NoService
  /\ \E svc \in ServiceOutcomes : service' = svc
  /\ result' = NoResult
  /\ UNCHANGED <<pipeline, act>>

\* analyzeImage comes back to its caller
AnalyzeReturn ==
  /\ service # NoService
  /\ result = NoResult
  /\ result' = analyzeImage(service)
  /\ UNCHANGED <<pipeline, act, service>>

\* the caller has taken the result
AnalyzeDone ==
  /\ result # NoResult
  /\ service' = NoService
  /\ result' = NoResult
  /\ UNCHANGED <<pipeline, act>>

(***************************************************************************)
(* Server actions uploadSingleImage and uploadImage (app/actions/upload.ts)*)
(*                                                                         *)
(* A call stores its files under paths it generates itself; the model      *)
(* names a path by the position of its file in the call and keeps the      *)
(* objects and rows of the call apart from the jobs of the upload route.   *)
(* redirect() of next/navigation never returns: it throws, and a catch     *)
(* block around the call catches what it throws.                           *)
(* An upload, an insert and a removal may fail; in the analysis phase of   *)
(* uploadSingleImage a call may also throw, which its catch block expects. *)
(***************************************************************************)
\* 50MB limit of the server actions
maxSizeAction == 50 * 1024 * 1024

\* file.size: a small file, one at the limit, one beyond it
ActionFileSizes == {1024, maxSizeAction, maxSizeAction + 1}

ActionFiles == [type : FileTypes, size : ActionFileSizes]

\* formData.getAll("files") / the file of uploadSingleImage
ActionBatches == UNION {[1..n -> ActionFiles] : n \in 0..MaxFiles}

\* originalFilePath / filePath and thumbnailFilePath of file k
OriginalPath(k) == <<k, "original">>

ThumbnailPath(k) == <<k, "thumbnail">>

\* no row was inserted for the file
NoActionRow == [processing_status |-> "none", ai_analysis_error |-> "null",
                storage_path |-> <<0, "none">>, thumbnail_url |-> <<0, "none">>]

\* the row uploadSingleImage inserts for file k
SingleRow(k) == [processing_status |-> "pending", ai_analysis_error |-> "null",
                 storage_path |-> OriginalPath(k),
                 thumbnail_url |-> ThumbnailPath(k)]

\* the row uploadImage inserts for file k: processing_status takes the
\* column's default, thumbnail_url stays null
ImageRow(k) == [processing_status |-> "pending", ai_analysis_error |-> "null",
                storage_path |-> OriginalPath(k),
                thumbnail_url |-> <<0, "none">>]

\* the call has not come back
NoOutcome == [kind |-> "none", message |-> "none", file |-> 0]

\* throw new Error(message) whose message names file k (0: no file)
Thrown(message, k) == [kind |-> "throw", message |-> message, file |-> k]

\* return { success: true, filename: file.name, imageId: insertedImage.id }
Success(k) == [kind |-> "return", message |-> "success", file |-> k]

\* the redirect that leaves uploadImage: every redirect() of the function is
\* called inside the outer try block, so what it throws is caught by the
\* outer catch block, whose own redirect() is the one that reaches the caller
OuterCatch ==
  [kind |-> "redirect", message |-> "Upload failed. Please try again.",
   file |-> 0]

\* file.type.startsWith("image/") and file.size <= maxSize
ActionAccepts(f) == StartsWithImage(f.type) /\ f.size <= maxSizeAction

(* uploadSingleImage *)

\* validation, getUser, fileToBuffer and generateThumbnail
SingleStart ==
  /\ call = "uploadSingleImage"
  /\ apc = "called"
  /\ \/ /\ ~StartsWithImage(formFiles[1].type)
        /\ outcome' = Thrown("must be an image", 1)
        /\ apc' = "returned"
     \/ /\ StartsWithImage(formFiles[1].type)
        /\ formFiles[1].size > maxSizeAction
        /\ outcome' = Thrown("size must be less than 50MB", 1)
        /\ apc' = "returned"
     \/ /\ ActionAccepts(formFiles[1])
        /\ \/ /\ outcome' = Thrown("User not authenticated", 0)
              /\ apc' = "returned"
           \/ /\ outcome' = Thrown("thumbnail generation failed", 0)
              /\ apc' = "returned"
           \/ /\ apc' = "putOriginal"
              /\ UNCHANGED outcome
  /\ UNCHANGED <<pipeline, lib, call, formFiles, idx, uploadedPaths, bucket,
                 table>>

\* upload(originalFilePath, file)
SinglePutOriginal ==
  /\ call = "uploadSingleImage"
  /\ apc = "putOriginal"
  /\ \/ /\ bucket' = bucket \cup {OriginalPath(1)}
        /\ apc' = "putThumbnail"
        /\ UNCHANGED outcome
     \/ /\ outcome' = Thrown("Failed to upload", 1)
        /\ apc' = "returned"
        /\ UNCHANGED bucket
  /\ UNCHANGED <<pipeline, lib, call, formFiles, idx, uploadedPaths, table>>

\* upload(thumbnailFilePath, thumbnailBuffer)
SinglePutThumbnail ==
  /\ call = "uploadSingleImage"
  /\ apc = "putThumbnail"
  /\ \/ /\ bucket' = bucket \cup {ThumbnailPath(1)}
        /\ apc' = "insert"
     \/ /\ apc' = "removeOriginal"
        /\ UNCHANGED bucket
  /\ UNCHANGED <<pipeline, lib, call, formFiles, idx, uploadedPaths, table,
                 outcome>>

\* paths removed after a failed insert, the thumbnail forgotten
SingleInsertCleanupOriginal == {OriginalPath(1)}

\* remove([originalFilePath, thumbnailFilePath])
SingleInsertCleanup == {OriginalPath(1), ThumbnailPath(1)}

\* the thumbnail upload failed: remove([originalFilePath]) succeeds, throw
SingleRemoveOriginal ==
  /\ call = "uploadSingleImage"
  /\ apc = "removeOriginal"
  /\ bucket' = bucket \ {OriginalPath(1)}
  /\ outcome' = Thrown("Failed to upload thumbnail", 1)
  /\ apc' = "returned"
  /\ UNCHANGED <<pipeline, lib, call, formFiles, idx, uploadedPaths, table>>

\* the removal returns an error, which the function does not look at
SingleRemoveOriginalError ==
  /\ call = "uploadSingleImage"
  /\ apc = "removeOriginal"
  /\ outcome' = Thrown("Failed to upload thumbnail", 1)
  /\ apc' = "returned"
  /\ UNCHANGED <<pipeline, lib, call, formFiles, idx, uploadedPaths, bucket,
                 table>>

\* insert({... processing_status: "pending"}).select().single()
SingleInsert ==
  /\ call = "uploadSingleImage"
  /\ apc = "insert"
  /\ \/ /\ table' = [table EXCEPT ![1] = SingleRow(1)]
        /\ apc' = "sign"
     \/ /\ apc' = "removeBoth"
        /\ UNCHANGED table
  /\ UNCHANGED <<pipeline, lib, call, formFiles, idx, uploadedPaths, bucket,
                 outcome>>

\* the insert failed: remove([originalFilePath, thumbnailFilePath]), throw
SingleRemoveBoth ==
  /\ call = "uploadSingleImage"
  /\ apc = "removeBoth"
  /\ bucket' = bucket \ SingleInsertCleanup
  /\ outcome' = Thrown("Failed to save to database", 1)
  /\ apc' = "returned"
  /\ UNCHANGED <<pipeline, lib, call, formFiles, idx, uploadedPaths, table>>

SingleRemoveBothError ==
  /\ call = "uploadSingleImage"
  /\ apc = "removeBoth"
  /\ outcome' = Thrown("Failed to save to database", 1)
  /\ apc' = "returned"
  /\ UNCHANGED <<pipeline, lib, call, formFiles, idx, uploadedPaths, bucket,
                 table>>

\* the catch block of the analysis phase throwing what it caught
AnalysisCatchRethrow == Thrown("Error in AI analysis", 0)

\* the catch block of the analysis phase swallows the error; the function
\* goes on to its return statement
AnalysisCatch == Success(1)

\* createSignedUrl: a url, no url, or an exception
SingleSign ==
  /\ call = "uploadSingleImage"
  /\ apc = "sign"
  /\ \/ /\ apc' = "mark"
        /\ UNCHANGED outcome
     \/ /\ apc' = "returned"
        /\ outcome' = Success(1)
     \/ /\ apc' = "catch"
        /\ UNCHANGED outcome
  /\ UNCHANGED <<pipeline, lib, call, formFiles, idx, uploadedPaths, bucket,
                 table>>

\* update({processing_status: "processing"}) is applied or throws
SingleMark ==
  /\ call = "uploadSingleImage"
  /\ apc = "mark"
  /\ \/ /\ table' = [table EXCEPT ![1].processing_status = "processing"]
        /\ apc' = "analyze"
     \/ /\ apc' = "catch"
        /\ UNCHANGED table
  /\ UNCHANGED <<pipeline, lib, call, formFiles, idx, uploadedPaths, bucket,
                 outcome>>

\* analyzeImage(signedUrl) and the update that records its result; the
\* update is applied or throws
SingleAnalyze ==
  /\ call = "uploadSingleImage"
  /\ apc = "analyze"
  /\ \E svc \in ServiceOutcomes :
       LET analysisResult == analyzeImage(svc) IN
         IF analysisResult.completion = "throw"
         THEN apc' = "catch" /\ UNCHANGED <<table, outcome>>
         ELSE \/ /\ table' = [table EXCEPT
                       ![1].processing_status =
                          IF analysisResult.value.success
                          THEN "completed" ELSE "failed",
                       ![1].ai_analysis_error =
                          IF analysisResult.value.success
                          THEN "null" ELSE "AI analysis failed"]
                 /\ apc' = "returned"
                 /\ outcome' = Success(1)
              \/ /\ apc' = "catch"
                 /\ UNCHANGED <<table, outcome>>
  /\ UNCHANGED <<pipeline, lib, call, formFiles, idx, uploadedPaths, bucket>>

\* the catch block of the analysis phase: update to failed, applied or
\* throwing into the inner catch block, then the return statement
SingleCatch ==
  /\ call = "uploadSingleImage"
  /\ apc = "catch"
  /\ \/ table' = [table EXCEPT ![1].processing_status = "failed",
                               ![1].ai_analysis_error = "Unknown error"]
     \/ UNCHANGED table
  /\ outcome' = AnalysisCatch
  /\ apc' = "returned"
  /\ UNCHANGED <<pipeline, lib, call, formFiles, idx, uploadedPaths, bucket>>

(* uploadImage *)

\* the checks before the loop: no file, a file that is no image or too
\* large, no user. Each of them calls redirect()
ImageStart ==
  /\ call = "uploadImage"
  /\ apc = "called"
  /\ \/ /\ \/ Len(formFiles) = 0
           \/ \E k \in 1..Len(formFiles) : ~ActionAccepts(formFiles[k])
        /\ outcome' = OuterCatch
        /\ apc' = "returned"
        /\ UNCHANGED idx
     \/ /\ Len(formFiles) > 0
        /\ \A k \in 1..Len(formFiles) : ActionAccepts(formFiles[k])
        /\ \/ /\ outcome' = OuterCatch
              /\ apc' = "returned"
              /\ UNCHANGED idx
           \/ /\ apc' = "put"
              /\ idx' = 1
              /\ UNCHANGED outcome
  /\ UNCHANGED <<pipeline, lib, call, formFiles, uploadedPaths, bucket, table>>

\* upload(filePath, file) of file idx succeeds: uploadedPaths.push(filePath)
ImagePut ==
  /\ call = "uploadImage"
  /\ apc = "put"
  /\ bucket' = bucket \cup {OriginalPath(idx)}
  /\ uploadedPaths' = Append(uploadedPaths, OriginalPath(idx))
  /\ apc' = "insert"
  /\ UNCHANGED <<pipeline, lib, call, formFiles, idx, table, outcome>>

\* where the function goes on when a file failed: to the cleanup before the
\* redirect, or, with nothing uploaded, past both cleanups to the outer catch
AfterFailure(paths) == IF Len(paths) > 0 THEN "cleanup" ELSE "returned"

\* upload(filePath, file) of file idx returns uploadError
ImagePutError ==
  /\ call = "uploadImage"
  /\ apc = "put"
  /\ apc' = AfterFailure(uploadedPaths)
  /\ outcome' = IF Len(uploadedPaths) > 0 THEN outcome ELSE OuterCatch
  /\ UNCHANGED <<pipeline, lib, call, formFiles, idx, uploadedPaths, bucket,
                 table>>

\* insert({...}) of file idx succeeds; after the last file revalidatePath
\* and redirect("/?success=...") are called
ImageInsert ==
  /\ call = "uploadImage"
  /\ apc = "insert"
  /\ table' = [table EXCEPT ![idx] = ImageRow(idx)]
  /\ IF idx < Len(formFiles)
     THEN /\ idx' = idx + 1
          /\ apc' = "put"
          /\ UNCHANGED outcome
     ELSE /\ apc' = "returned"
          /\ outcome' = OuterCatch
          /\ UNCHANGED idx
  /\ UNCHANGED <<pipeline, lib, call, formFiles, uploadedPaths, bucket>>

\* insert({...}) of file idx returns dbError
ImageInsertError ==
  /\ call = "uploadImage"
  /\ apc = "insert"
  /\ apc' = "cleanup"
  /\ UNCHANGED <<pipeline, lib, call, formFiles, idx, uploadedPaths, bucket,
                 table, outcome>>

\* remove(uploadedPaths)
Cleanup(paths) == {paths[i] : i \in 1..Len(paths)}

\* the cleanup before the redirect that names the file; redirect() throws
\* into the catch block of the loop
ImageCleanup ==
  /\ call = "uploadImage"
  /\ apc = "cleanup"
  /\ bucket' = bucket \ Cleanup(uploadedPaths)
  /\ apc' = "catchCleanup"
  /\ UNCHANGED <<pipeline, lib, call, formFiles, idx, uploadedPaths, table,
                 outcome>>

ImageCleanupError ==
  /\ call = "uploadImage"
  /\ apc = "cleanup"
  /\ apc' = "catchCleanup"
  /\ UNCHANGED <<pipeline, lib, call, formFiles, idx, uploadedPaths, bucket,
                 table, outcome>>

\* the catch block of the loop: remove(uploadedPaths) once more, then its
\* redirect(), which throws into the outer catch block
ImageCatchCleanup ==
  /\ call = "uploadImage"
  /\ apc = "catchCleanup"
  /\ bucket' = bucket \ Cleanup(uploadedPaths)
  /\ outcome' = OuterCatch
  /\ apc' = "returned"
  /\ UNCHANGED <<pipeline, lib, call, formFiles, idx, uploadedPaths, table>>

ImageCatchCleanupError ==
  /\ call = "uploadImage"
  /\ apc = "catchCleanup"
  /\ outcome' = OuterCatch
  /\ apc' = "returned"
  /\ UNCHANGED <<pipeline, lib, call, formFiles, idx, uploadedPaths, bucket,
                 table>>

\* the ledger holds the other user's job, the request is about to be handled
InitLedger ==
  /\ images = [j \in AllIds |-> IF j \in OtherIds THEN OtherRow ELSE NoRow]
  /\ blobs = UNION {CleanupPaths(j) : j \in OtherIds}
  /\ old = [j \in AllIds |-> j \in OtherIds]
  /\ files \in Batches
  /\ next = 1
  /\ uploadJobs = {}
  /\ response = NoResponse
  /\ epc = [j \in AllIds |-> "idle"]
  /\ cause = [j \in AllIds |-> "none"]
  /\ fpc = [p \in Passes |-> "idle"]
  /\ snap = [p \in Passes |-> {}]
  /\ stuck = [p \in Passes |-> {}]
  /\ rapc = "idle"
  /\ raId = 0
  /\ aipc = "idle"
  /\ aiId = 0
  /\ activeUploads = NoUploads
  /\ timers = [j \in AllIds |-> 0]
  /\ fetched = [p \in Passes |-> NoUploads]
  /\ pollInterval = FALSE
  /\ prevHadActiveUploads = FALSE
  /\ onAllUploadsComplete = FALSE

\* analyzeImage is not called
NoLibraryCall == service = NoService /\ result = NoResult

\* the server action has stored and inserted nothing
NoActionState ==
  /\ idx = 0
  /\ uploadedPaths = <<>>
  /\ bucket = {}
  /\ table = [k \in 1..MaxFiles |-> NoActionRow]
  /\ outcome = NoOutcome

\* no server action is called
NoActionCall ==
  /\ call = "none"
  /\ formFiles = <<>>
  /\ apc = "idle"
  /\ NoActionState

\* no component is mounted: the passes leave no list behind
Init == InitLedger /\ mounted = FALSE /\ NoLibraryCall /\ NoActionCall

Next ==
  \/ PostNoFiles
  \/ PostReject
  \/ PostInsert
  \/ PostInsertError
  \/ PostReturn
  \/ \E j \in Ids : ExecStart(j)
  \/ \E j \in Ids : ExecBuffer(j)
  \/ \E j \in Ids : ExecThumbnail(j)
  \/ \E j \in Ids : ExecPutOriginal(j)
  \/ \E j \in Ids : ExecProgress70(j)
  \/ \E j \in Ids : ExecPutThumbnail(j)
  \/ \E j \in Ids : ExecRemoveOriginal(j)
  \/ \E j \in Ids : ExecRemoveOriginalError(j)
  \/ \E j \in Ids : ExecPending(j)
  \/ \E j \in Ids : ExecCatch(j)
  \/ \E j \in Ids : ExecCleanup(j)
  \/ \E j \in Ids : ExecCleanupError(j)
  \/ \E j \in Ids : ExecAi(j)
  \/ \E j \in Ids : ExecSign(j)
  \/ \E j \in Ids : ExecAnalyzeSuccess(j)
  \/ \E j \in Ids : ExecAnalyzeFailure(j)
  \/ \E j \in Ids : ExecAiCatch(j)
  \/ \E j \in Ids : Age(j)
  \/ \E p \in Passes : FetchQuery(p)
  \/ \E p \in Passes : FetchQueryError(p)
  \/ \E p \in Passes : FetchFilter(p)
  \/ \E p \in Passes : FetchUpdate(p)
  \/ ClearStuckUploads
  \/ \E id \in AllIds : ReSelect(id)
  \/ ReSign
  \/ ReMark
  \/ ReSuccess
  \/ ReFailure
  \/ \E id \in AllIds : AnSelect(id)
  \/ AnMark
  \/ AnSuccess
  \/ AnFailure

Spec == Init /\ [][Next]_vars

(***************************************************************************)
(* The pipeline without requests to the two analysis routes, every call of *)
(* an executor returning                                                   *)
(***************************************************************************)
Executor(j) ==
  \/ ExecStart(j)
  \/ ExecBuffer(j)
  \/ ExecThumbnail(j)
  \/ ExecPutOriginal(j)
  \/ ExecProgress70(j)
  \/ ExecPutThumbnail(j)
  \/ ExecRemoveOriginal(j)
  \/ ExecRemoveOriginalError(j)
  \/ ExecPending(j)
  \/ ExecCatch(j)
  \/ ExecCleanup(j)
  \/ ExecCleanupError(j)
  \/ ExecAi(j)
  \/ ExecSign(j)
  \/ ExecAnalyzeSuccess(j)
  \/ ExecAnalyzeFailure(j)
  \/ ExecAiCatch(j)

NextNoRoutes ==
  \/ PostNoFiles
  \/ PostReject
  \/ PostInsert
  \/ PostInsertError
  \/ PostReturn
  \/ \E j \in Ids : Executor(j)
  \/ \E j \in Ids : Age(j)
  \/ \E p \in Passes : FetchQuery(p)
  \/ \E p \in Passes : FetchQueryError(p)
  \/ \E p \in Passes : FetchFilter(p)
  \/ \E p \in Passes : FetchUpdate(p)
  \/ ClearStuckUploads

SpecFair ==
  /\ Init
  /\ [][NextNoRoutes]_vars
  /\ \A j \in Ids : WF_vars(Executor(j))

(***************************************************************************)
(* The upload request and the executors it starts, nothing else calling    *)
(***************************************************************************)
NextUpload ==
  \/ PostNoFiles
  \/ PostReject
  \/ PostInsert
  \/ PostInsertError
  \/ PostReturn
  \/ \E j \in Ids : Executor(j)

SpecUpload == Init /\ [][NextUpload]_vars

(***************************************************************************)
(* The pipeline seen from a mounted component: its passes set the list, the *)
(* subscription feeds it, the grace timers run                              *)
(***************************************************************************)
InitClient == InitLedger /\ mounted = TRUE /\ NoLibraryCall /\ NoActionCall

NextClient ==
  \/ NextNoRoutes
  \/ \E p \in Passes : FetchSet(p)
  \/ \E j \in Ids : GraceTimer(j)

SpecClient == InitClient /\ [][NextClient]_vars

\* the upload request and its executors seen from a mounted component that
\* starts no pass, while the re-analysis route is called
NextClientRoutes ==
  \/ NextUpload
  \/ \E j \in Ids : GraceTimer(j)
  \/ \E id \in AllIds : ReSelect(id)
  \/ ReSign
  \/ ReMark
  \/ ReSuccess
  \/ ReFailure

SpecClientRoutes == InitClient /\ [][NextClientRoutes]_vars

(***************************************************************************)
(* The mounted component with its timers running: the interval calls       *)
(* fetchActiveUploads while it is set, a pass that got its rows goes on to *)
(* its end, a grace timer fires. The ledger answers every query. Nothing   *)
(* obliges an executor to go on or anyone to call refreshUploads.          *)
(***************************************************************************)
\* the interval of the poll effect calls fetchActiveUploads
PollTick == pollInterval /\ FetchQuery("poll")

NextSync ==
  \/ PostNoFiles
  \/ PostReject
  \/ PostInsert
  \/ PostInsertError
  \/ PostReturn
  \/ \E j \in Ids : Executor(j)
  \/ \E j \in Ids : Age(j)
  \/ FetchQuery("poll")
  \/ FetchFilter("poll")
  \/ FetchUpdate("poll")
  \/ FetchSet("poll")
  \/ \E j \in Ids : GraceTimer(j)

SpecSync ==
  /\ InitClient
  /\ [][NextSync]_vars
  /\ WF_vars(PollTick)
  /\ WF_vars(FetchFilter("poll"))
  /\ WF_vars(FetchUpdate("poll"))
  /\ WF_vars(FetchSet("poll"))
  /\ \A j \in Ids : WF_vars(GraceTimer(j))

(***************************************************************************)
(* analyzeImage called for every outcome of the service                    *)
(***************************************************************************)
\* nothing but the library function runs
InitIdle == InitLedger /\ files = <<>> /\ mounted = FALSE

InitAnalyze ==
  /\ InitIdle
  /\ service \in ServiceOutcomes
  /\ result = NoResult
  /\ NoActionCall

NextAnalyze ==
  \/ AnalyzeCall
  \/ AnalyzeReturn
  \/ AnalyzeDone

SpecAnalyze == InitAnalyze /\ [][NextAnalyze]_vars

(***************************************************************************)
(* One call of a server action                                             *)
(***************************************************************************)
InitActions ==
  /\ InitIdle
  /\ NoLibraryCall
  /\ call \in {"uploadSingleImage", "uploadImage"}
  /\ formFiles \in ActionBatches
  /\ call = "uploadSingleImage" => Len(formFiles) = 1
  /\ apc = "called"
  /\ NoActionState

NextActions ==
  \/ SingleStart
  \/ SinglePutOriginal
  \/ SinglePutThumbnail
  \/ SingleRemoveOriginal
  \/ SingleRemoveOriginalError
  \/ SingleInsert
  \/ SingleRemoveBoth
  \/ SingleRemoveBothError
  \/ SingleSign
  \/ SingleMark
  \/ SingleAnalyze
  \/ SingleCatch
  \/ ImageStart
  \/ ImagePut
  \/ ImagePutError
  \/ ImageInsert
  \/ ImageInsertError
  \/ ImageCleanup
  \/ ImageCleanupError
  \/ ImageCatchCleanup
  \/ ImageCatchCleanupError

SpecActions == InitActions /\ [][NextActions]_vars

(***************************************************************************)
(* Properties                                                              *)
(***************************************************************************)
\* the executor of j has not returned
Live(j) == epc[j] \notin {"idle", "done", "aborted"}

\* the blobs of job j in the store
BlobsOf(j) == {b \in blobs : b[1] = j}

\* a step of a synchronizer's forced transition
Forced == (\E p \in Passes : FetchUpdate(p)) \/ ClearStuckUploads

\* the edges of the status graph
GraphEdges ==
  {<<"uploading", "processing">>, <<"processing", "pending">>,
   <<"pending", "ai_processing">>, <<"ai_processing", "completed">>,
   <<"ai_processing", "failed">>}
  \cup {<<st, "failed">> : st \in ActiveStatuses}

\* C1: every change of a job's status is an edge of the graph
\* uploading -> processing -> pending -> ai_processing -> {completed, failed}
\* or an edge from a non-terminal status to failed; completed is therefore
\* only written over ai_processing, which is only written over pending.
C1_StatusFollowsGraph ==
  [][\A j \in Rows :
       images'[j].processing_status # images[j].processing_status
       => <<images[j].processing_status, images'[j].processing_status>>
            \in GraphEdges]_vars

\* C2: a job whose status is completed has progress 100.
C2_CompletedHasProgress100 ==
  \A j \in Rows :
    images[j].processing_status = "completed" => images[j].upload_progress = 100

\* C3: between two successive ledger states in which a job's status is
\* non-terminal its progress does not decrease.
C3_ProgressMonotoneWhileActive ==
  [][\A j \in Rows :
       (images[j].processing_status \in ActiveStatuses
        /\ images'[j].processing_status \in ActiveStatuses)
       => images'[j].upload_progress >= images[j].upload_progress]_vars

\* C3 witness: a job that was force-failed is active again with the
\* executor's later progress.
C3_Witness ==
  \E j \in Rows :
    /\ IsActive(j)
    /\ images[j].upload_progress >= 70
    /\ images[j].ai_analysis_error = "Upload cancelled by user"

\* C4: with both artifacts stored, a failing analysis step (no signed url, or
\* analysis returning an error) makes the executor write failed with progress
\* 100 and an error detail as its last write, and no step of the analysis
\* phase removes an artifact.
C4_AnalysisFailureKeepsUpload ==
  [][\A j \in Ids :
       /\ epc[j] \in {"ai", "sign", "analyze", "aiCatch"}
            => CleanupPaths(j) \subseteq blobs /\ CleanupPaths(j) \subseteq blobs'
       /\ (epc[j] \in {"sign", "analyze"} /\ epc'[j] # epc[j])
            => \/ epc'[j] = "aiCatch" /\ images'[j] = images[j]
               \/ epc[j] = "sign" /\ epc'[j] = "analyze"
               \/ epc[j] = "analyze" /\ ExecAnalyzeSuccess(j)
       /\ (epc[j] = "aiCatch" /\ epc'[j] # "aiCatch")
            => /\ epc'[j] = "done"
               /\ images'[j].processing_status = "failed"
               /\ images'[j].upload_progress = 100
               /\ images'[j].ai_analysis_error # "null"]_vars

\* C4 witness: the executor returned after a failed analysis, the row is
\* failed at progress 100 and both artifacts are stored.
C4_Witness ==
  \E j \in Rows :
    /\ epc[j] = "done"
    /\ images[j].processing_status = "failed"
    /\ images[j].upload_progress = 100
    /\ images[j].ai_analysis_error = "AI analysis failed"
    /\ CleanupPaths(j) \subseteq blobs

\* C5: when the thumbnail upload fails after the original was stored, a
\* successful removal takes the original out of the store, the executor
\* writes failed with progress 0 and an error detail, and after a successful
\* cleanup no blob of the job is left.
C5_ThumbnailFailureCleansUp ==
  [][\A j \in Ids :
       /\ ExecRemoveOriginal(j) => <<j, "original">> \notin blobs'
       /\ (epc[j] = "catch" /\ cause[j] = "thumbnail" /\ epc'[j] # "catch")
            => /\ images'[j].processing_status = "failed"
               /\ images'[j].upload_progress = 0
               /\ images'[j].ai_analysis_error # "null"
       /\ (ExecCleanup(j) /\ cause[j] = "thumbnail")
            => BlobsOf(j)' = {} /\ epc'[j] = "aborted"]_vars

\* C5 witness: the executor returned from its catch block after a thumbnail
\* failure: the row is failed at progress 0 with the upload error and no
\* blob of the job is stored.
C5_Witness ==
  \E j \in Rows :
    /\ epc[j] = "aborted"
    /\ images[j].processing_status = "failed"
    /\ images[j].upload_progress = 0
    /\ images[j].ai_analysis_error = "Upload failed"
    /\ BlobsOf(j) = {}

\* C6: every job the active-set query returned that is older than the
\* timeout threshold is written failed with the timeout error detail by the
\* same pass, whether or not its executor is still running.
C6_StuckJobsAreFailed ==
  [][\A p \in Passes :
       /\ (fpc[p] = "filter" /\ fpc'[p] # "filter")
            => \A j \in snap[p] :
                 old[j] => fpc'[p] = "update" /\ j \in stuck'[p]
       /\ (fpc[p] = "update" /\ fpc'[p] # "update")
            => \A j \in stuck[p] :
                 /\ images'[j].processing_status = "failed"
                 /\ images'[j].ai_analysis_error
                      = "Upload timed out after 5 minutes"]_vars

\* C6 witness: a job was failed by the timeout pass while its executor has
\* not returned.
C6_Witness ==
  \E j \in Rows :
    /\ Live(j)
    /\ images[j].processing_status = "failed"
    /\ images[j].ai_analysis_error = "Upload timed out after 5 minutes"

\* C7 (as claimed): the forced timeout transition leaves the progress of
\* every job as it was.
C7_TimeoutKeepsProgress ==
  [][(\E p \in Passes : FetchUpdate(p))
       => \A j \in Rows :
            images'[j].upload_progress = images[j].upload_progress]_vars

\* C7 (amended): the forced timeout transition writes status failed, the
\* timeout error detail and progress 0 to each stuck job and changes no
\* other row and no artifact.
C7_TimeoutResetsProgress ==
  [][\A p \in Passes :
       (fpc[p] = "update" /\ fpc'[p] # "update")
         => /\ \A j \in Rows :
                 IF j \in stuck[p]
                 THEN images'[j] =
                        [images[j] EXCEPT
                           !.processing_status = "failed",
                           !.upload_progress = 0,
                           !.ai_analysis_error =
                              "Upload timed out after 5 minutes"]
                 ELSE images'[j] = images[j]
            /\ blobs' = blobs]_vars

\* C7 witness: a job whose original was stored (progress 70 or more) stands
\* at progress 0 after the timeout pass failed it.
C7_Witness ==
  \E j \in Rows :
    /\ images[j].processing_status = "failed"
    /\ images[j].ai_analysis_error = "Upload timed out after 5 minutes"
    /\ images[j].upload_progress = 0
    /\ epc[j] \in {"putThumbnail", "pending", "ai", "sign", "analyze"}

\* C8: a forced transition (timeout pass or clearStuckUploads) changes
\* neither the status nor the progress of a job that is completed or failed
\* when the write is applied.
C8_ForcedLeavesTerminal ==
  [][Forced
       => \A j \in Rows :
            IsTerminal(j)
              => /\ images'[j].processing_status = images[j].processing_status
                 /\ images'[j].upload_progress = images[j].upload_progress]_vars

\* C9: with every call of the executor returning and no request to the
\* analysis routes, every job eventually is completed or failed and stays
\* so, also when the synchronizer force-failed it while its executor ran.
C9_JobsConverge ==
  \A j \in Ids : <>[](j \in Rows => IsTerminal(j))

\* C9 witness: the executor wrote over a forced failure: the job is active
\* again and still carries the timeout error detail.
C9_Witness ==
  \E j \in Rows :
    /\ IsActive(j)
    /\ Live(j)
    /\ images[j].ai_analysis_error = "Upload timed out after 5 minutes"

\* the file passes the validation of the background route
Accepted(f) == TypeAccepted(f) /\ SizeAccepted(f)

\* C10: (background route) a row is inserted and an executor started only
\* for the file under validation and only when it is an image within the
\* size limit, artifacts are written only for inserted rows, and the response
\* is an error that names every submitted file that is no image or too big.
C10_RejectedFilesNamed ==
  [][/\ (Rows' # Rows \/ \E j \in Ids : epc[j] = "idle" /\ epc'[j] # "idle")
          => /\ next \in 1..Len(files)
             /\ Accepted(files[next])
             /\ uploadJobs' = uploadJobs \cup {[imageId |-> NewId, file |-> next]}
     /\ \A b \in blobs' \ blobs : b[1] \in Rows
     /\ (response = NoResponse /\ response' # NoResponse)
          => \A i \in 1..Len(files) :
               ~Accepted(files[i])
                 => response'.success = "false" /\ response'.file = i]_vars

\* the batch holds a file the validation accepts and one it rejects
Mixed ==
  /\ \E i \in 1..Len(files) : Accepted(files[i])
  /\ \E i \in 1..Len(files) : ~Accepted(files[i])

\* C11: the request for a batch that mixes acceptable and rejected files
\* returns a success response whose job ids are the ids of the rows the
\* request created.
C11_PartialSuccessReported ==
  [][(Mixed /\ response = NoResponse /\ response' # NoResponse)
       => /\ response'.success = "true"
          /\ response'.jobIds = {job.imageId : job \in uploadJobs}]_vars

\* C12: an iteration of the request's loop over an accepted file either
\* inserts nothing and starts nothing (the insert failed) or inserts exactly
\* one row, with status uploading and progress 0, and starts exactly the
\* executor of that row; no executor is started in any other way or twice;
\* the loop goes on without the executor having moved.
C12_OneRowOneExecutorPerFile ==
  [][/\ (response = NoResponse /\ next \in 1..Len(files) /\ next' = next + 1)
          => \/ /\ images' = images
                /\ epc' = epc
                /\ uploadJobs' = uploadJobs
             \/ \E j \in Ids \ Rows :
                  /\ Rows' = Rows \cup {j}
                  /\ images'[j].processing_status = "uploading"
                  /\ images'[j].upload_progress = 0
                  /\ images'[j].user_id = User
                  /\ epc[j] = "idle" /\ epc'[j] = "start"
                  /\ \A k \in AllIds \ {j} :
                       images'[k] = images[k] /\ epc'[k] = epc[k]
                  /\ uploadJobs' =
                       uploadJobs \cup {[imageId |-> j, file |-> next]}
     /\ \A j \in AllIds :
          /\ (epc[j] = "idle" /\ epc'[j] # "idle")
               => next' = next + 1 /\ j \notin Rows /\ j \in Rows'
          /\ epc'[j] = "start" => epc[j] \in {"idle", "start"}]_vars

\* C12 witness: the request has returned success with a job whose executor
\* has not returned and whose row is not terminal.
C12_Witness ==
  /\ response.success = "true"
  /\ \E j \in response.jobIds : Live(j) /\ IsActive(j)

\* C13: a row whose thumbnail_url is set has its thumbnail blob in the store
\* or is failed with an error detail.
C13_ThumbnailPathHasBlob ==
  \A j \in Rows :
    images[j].thumbnail_url # "null"
      => \/ <<j, "thumbnail">> \in blobs
         \/ /\ images[j].processing_status = "failed"
            /\ images[j].ai_analysis_error # "null"

\* the executor of j has written pending
Durable(j) == epc[j] \in {"ai", "sign", "analyze", "aiCatch", "done"}

\* C14: from the write of pending on, both artifacts of the job are stored
\* and no step of the executor, the synchronizer or an analysis route
\* removes one of them.
C14_ArtifactsKeptAfterPending ==
  [][\A j \in Ids :
       /\ (epc[j] = "pending" /\ epc'[j] # "pending")
            => Durable(j)' /\ CleanupPaths(j) \subseteq blobs'
       /\ Durable(j) => Durable(j)' /\ BlobsOf(j)' = BlobsOf(j)]_vars

\* C14 witness: the executor has returned after its pending write, a forced
\* transition has failed the job at progress 0, and both artifacts are
\* stored.
C14_Witness ==
  \E j \in Ids :
    /\ epc[j] = "done"
    /\ images[j].processing_status = "failed"
    /\ images[j].upload_progress = 0
    /\ CleanupPaths(j) \subseteq blobs

\* a step of the re-analysis request
ReStep ==
  \/ \E id \in AllIds : ReSelect(id)
  \/ ReSign
  \/ ReMark
  \/ ReSuccess
  \/ ReFailure

\* C15: no step of a re-analysis request adds a blob to the store or
\* removes one, whether the request ends in success or in failure.
C15_ReanalysisKeepsStore ==
  [][(ReStep \/ rapc' # rapc) => blobs' = blobs]_vars

\* C15 witness: a re-analysis request has got its signed url and marked the
\* row of a job whose executor has returned.
C15_Witness ==
  /\ rapc = "analyze"
  /\ raId \in Ids
  /\ epc[raId] \in {"done", "aborted"}
  /\ images[raId].processing_status = "processing"

\* C16: the re-analysis request changes the row only of a job that is
\* failed: marking a job that is completed or not terminal leaves its row
\* as it was.
C16_ReanalysisOnlyOfFailed ==
  [][(rapc = "mark" /\ rapc' # "mark"
      /\ images[raId].processing_status # "failed")
       => images'[raId] = images[raId]]_vars

HeldOtherIds ==
  {j \in OtherIds :
     \/ j \in {raId, aiId}
     \/ \E p \in Passes : j \in snap[p] \cup stuck[p]
     \/ \E p \in Passes : fetched[p][j] # "none"
     \/ activeUploads[j] # "none"}

\* C18: with every request and every client call made for the user, a row of
\* the other user and its artifacts never change, and no request and no
\* pass of the user ever holds such a row.
C18_OtherOwnerUntouched ==
  [][/\ \A j \in AllIds :
          images[j].user_id = Other
            => images'[j] = images[j] /\ BlobsOf(j)' = BlobsOf(j)
     /\ HeldOtherIds' = {}]_vars

\* C18 witness: the timeout pass failed a job of the user while the other
\* user's job, active and older than five minutes, stands as it was.
C18_Witness ==
  /\ \E j \in Ids :
       /\ images[j].processing_status = "failed"
       /\ images[j].ai_analysis_error = "Upload timed out after 5 minutes"
  /\ \E k \in OtherIds : images[k] = OtherRow /\ old[k]

\* C19: a job the list shows as completed or failed leaves the list only by
\* a grace timer, and the grace timer takes it off the list.
C19_TerminalShownForGrace ==
  [][\A j \in Ids :
       /\ (activeUploads[j] \in TerminalStatuses /\ activeUploads'[j] = "none")
            => GraceTimer(j)
       /\ GraceTimer(j) => activeUploads'[j] = "none"]_vars

\* C20: the update of clearStuckUploads writes failed, the cancel error
\* detail and progress 0 to every active job of the user, whatever its age,
\* and leaves every other row as it was; the list is emptied with it and
\* fetchActiveUploads is called.
C20_ClearFailsEveryActiveJob ==
  [][(fpc["clear"] = "idle" /\ fpc'["clear"] # "idle")
       => /\ \A j \in Rows :
               IF images[j].user_id = User
                  /\ images[j].processing_status \in ActiveStatuses
               THEN images'[j] = [images[j] EXCEPT
                                   !.processing_status = "failed",
                                   !.ai_analysis_error =
                                      "Upload cancelled by user",
                                   !.upload_progress = 0]
               ELSE images'[j] = images[j]
          /\ blobs' = blobs
          /\ activeUploads' = NoUploads
          /\ fpc'["clear"] = "called"]_vars

\* C20 witness: clearStuckUploads has failed a job of the user that is
\* younger than five minutes and whose executor runs, the other user's
\* active job stands as it was, the list is empty and the refresh is called.
C20_Witness ==
  /\ fpc["clear"] = "called"
  /\ activeUploads = NoUploads
  /\ \E j \in Ids :
       /\ ~old[j]
       /\ Live(j)
       /\ images[j].processing_status = "failed"
       /\ images[j].ai_analysis_error = "Upload cancelled by user"
       /\ timers[j] > 0
  /\ \E k \in OtherIds : images[k] = OtherRow

\* C27: in every reachable ledger state a job whose status is failed has an
\* error detail that is not null, whichever of the executor, the timeout
\* pass, clearStuckUploads, the re-analysis route and the analyze-image route
\* wrote last
C27_FailedHasErrorDetail ==
  \A j \in Rows :
    images[j].processing_status = "failed" =>
      images[j].ai_analysis_error # "null"

\* the re-analysis route has cleared the error of a failed job and marked it
\* processing, and the executor's catch has failed the job again
C27_Witness ==
  \E j \in Ids :
    /\ rapc = "analyze"
    /\ raId = j
    /\ epc[j] = "cleanup"
    /\ images[j].processing_status = "failed"
    /\ images[j].ai_analysis_error = "Upload failed"

\* C26: in every state of a mounted component the interval of the poll
\* effect is set if and only if the list holds a job whose status is
\* uploading, processing, pending or ai_processing; it is cleared while the
\* list is empty or holds only completed and failed jobs
C26_PollArmedIffActiveListed ==
  mounted =>
    (pollInterval <=>
       \E j \in AllIds :
         activeUploads[j] \in {"uploading", "processing", "pending",
                               "ai_processing"})

\* the list holds only a failed job that waits for its grace timer, its
\* executor still running: the interval is cleared
C26_Witness ==
  /\ mounted
  /\ ~pollInterval
  /\ \E j \in Ids :
       /\ activeUploads[j] = "failed"
       /\ timers[j] > 0
       /\ Live(j)

\* C28: when the list of a mounted component becomes empty and every job it
\* held is completed or failed in the ledger, the effects of that render call
\* onAllUploadsComplete, whether a grace timer or a pass emptied the list
C28_CallbackWhenListEmpties ==
  [][(/\ mounted
      /\ \/ \E j \in Ids : GraceTimer(j)
         \/ \E p \in Passes : FetchSet(p) \/ FetchQuery(p)
      /\ activeUploads # NoUploads
      /\ activeUploads' = NoUploads
      /\ \A j \in AllIds :
           activeUploads[j] # "none"
             => images'[j].processing_status \in TerminalStatuses)
       => onAllUploadsComplete']_vars

\* C29: a grace timer takes a listed job off the list only when the job is
\* completed or failed in the ledger at that moment; a job written back to
\* an active status before the timer fires stays listed
C29_TimerRemovesOnlyTerminal ==
  [][\A j \in Ids :
       (GraceTimer(j) /\ activeUploads[j] # "none")
         => images[j].processing_status \in TerminalStatuses]_vars

\* the jobs on the list
Listed == {j \in AllIds : activeUploads[j] # "none"}

\* C21: if from some point on no row changes, then from some point on the
\* list of the mounted component holds exactly the user's jobs whose status
\* is active, and no completed or failed job
C21_ViewEventuallyConsistent ==
  <>[][images' = images]_vars => <>[](Listed = ActiveSet)

\* the failures of the service: a transport error, no content, a text that
\* is no JSON, a value without tags, description or dominantColors, tags or
\* dominantColors that are no array
ServiceFailed(svc) ==
  \/ svc.kind \in {"error", "thrown"}
  \/ /\ svc.kind = "response"
     /\ \/ svc.content.text \in {"absent", "empty", "malformed"}
        \/ /\ svc.content.text = "json"
           /\ \/ svc.content.value.t # "object"
              \/ /\ svc.content.value.t = "object"
                 /\ \/ svc.content.value.tags.t # "array"
                    \/ svc.content.value.description.t = "undefined"
                    \/ svc.content.value.dominantColors.t # "array"

\* C22: analyzeImage never throws to its caller, and for every failure of
\* the service it returns success = false, an error message and empty tags,
\* description and dominantColors
C22_AnalyzeImageNeverThrows ==
  result # NoResult =>
    /\ result.completion = "return"
    /\ ServiceFailed(service) =>
         /\ result.value.success = FALSE
         /\ result.value.error \notin {"undefined", "null", ""}
         /\ result.value.tags = <<>>
         /\ result.value.description = <<>>
         /\ result.value.dominantColors = <<>>

\* the service answered with tags that are no array and analyzeImage
\* returned the failure of the structure check
C22_Witness ==
  /\ service.kind = "response"
  /\ service.content.text = "json"
  /\ service.content.value.t = "object"
  /\ service.content.value.tags.t = "string"
  /\ result = Return([tags |-> <<>>, description |-> <<>>,
                      dominantColors |-> <<>>, success |-> FALSE,
                      error |-> "Invalid response structure from OpenAI"])

C24_SingleSuccessAfterInsert ==
  [][call = "uploadSingleImage" =>
       /\ (table[1] = NoActionRow /\ table'[1] # NoActionRow)
            => /\ table'[1].processing_status = "pending"
               /\ {OriginalPath(1), ThumbnailPath(1)} \subseteq bucket'
       /\ table[1] # NoActionRow
            => /\ bucket' = bucket
               /\ table'[1] # NoActionRow
               /\ apc' = "returned" => outcome' = Success(1)]_vars

\* the update to processing was applied, a later call threw, the update of
\* the catch block threw as well, and the call returned success
C24_Witness ==
  /\ call = "uploadSingleImage"
  /\ apc = "returned"
  /\ outcome = Success(1)
  /\ table[1].processing_status = "processing"
  /\ bucket = {OriginalPath(1), ThumbnailPath(1)}

\* C25: when uploadImage fails to store or to insert a file, a successful
\* removal takes every object the call has stored out of the store, the
\* failing file's own after an insert failure, and the redirect that reaches
\* the caller carries an error that names the failing file
C25_BatchFailureNamesFile ==
  [][call = "uploadImage" =>
       /\ (ImageCleanup \/ ImageCatchCleanup) => bucket' = {}
       /\ (apc \in {"put", "cleanup", "catchCleanup"} /\ apc' = "returned")
            => /\ outcome'.kind = "redirect"
               /\ outcome'.file = idx]_vars

\* C30: after uploadImage has come back, every row it inserted has its
\* storage_path among the stored objects
C30_RowsPointAtStoredBlobs ==
  (call = "uploadImage" /\ apc = "returned")
    => \A k \in 1..MaxFiles :
         table[k] # NoActionRow => table[k].storage_path \in bucket
====
